---- MODULE Spec2Model ----
(***************************************************************************)
(* Model of plugin-src/advsearch/advsearch.py: the request handler of the  *)
(* Trac advanced search plugin (AdvancedSearchPlugin.process_request), the *)
(* cross-provider merge (_merge_results, _add_href_to_results) and the     *)
(* pagination cursor (StartPoints.parse_args / StartPoints.format).        *)
(*                                                                         *)
(* Request parameter values are texts, modelled as sequences of one-       *)
(* character strings; Python values that the code mixes (int, str, None)   *)
(* are tagged records, see IntVal / StrVal / NoneVal.                      *)
(***************************************************************************)
EXTENDS Integers, Sequences, FiniteSets, TLC

\* ---------------------------------------------------------------- bounds
MaxResults == 3      \* records the providers return for one request, in total
MaxRequests == 2     \* requests handled in one run

\* ------------------------------------------------------ program constants
DEFAULT_PER_PAGE == 10
DEFAULT_PAGE == 1
SOURCE_FILTERS == <<"wiki", "ticket">>
\* the registered IAdvSearchBackend components, by get_name(), in the order
\* the extension point lists them
providers == <<"A", "B">>
ProviderNames == {providers[i] : i \in 1..Len(providers)}
\* StartPoints.FORMAT_STRING % name
FORMAT_STRING(name) ==
    CASE name = "A" -> "provider_start_point:A"
      [] name = "B" -> "provider_start_point:B"

\* ------------------------------------------------------- Python values
IntVal(n) == [kind |-> "int", int |-> n, str |-> <<>>]
StrVal(s) == [kind |-> "str", int |-> 0, str |-> s]
NoneVal == [kind |-> "none", int |-> 0, str |-> <<>>]

\* mutant of Truthy: the test `query is None` in place of `not query`
Truthy_not_none(v) == v.kind # "none"

\* truth value of a Python object (`not query`)
Truthy(v) ==
    CASE v.kind = "none" -> FALSE
      [] v.kind = "int" -> v.int # 0
      [] v.kind = "str" -> v.str # <<>>

DigitChars == {"0", "1", "2", "3", "4", "5", "6", "7", "8", "9"}
DigitVal == ("0" :> 0) @@ ("1" :> 1) @@ ("2" :> 2) @@ ("3" :> 3) @@ ("4" :> 4)
            @@ ("5" :> 5) @@ ("6" :> 6) @@ ("7" :> 7) @@ ("8" :> 8) @@ ("9" :> 9)
DigitChar == <<"0", "1", "2", "3", "4", "5", "6", "7", "8", "9">>

RECURSIVE LStrip(_)
LStrip(s) == IF s # <<>> /\ Head(s) = " " THEN LStrip(Tail(s)) ELSE s

RECURSIVE RStrip(_)
RStrip(s) ==
    IF s # <<>> /\ s[Len(s)] = " " THEN RStrip(SubSeq(s, 1, Len(s) - 1)) ELSE s

RECURSIVE DigitsValue(_, _)
DigitsValue(s, acc) ==
    IF s = <<>> THEN acc ELSE DigitsValue(Tail(s), 10 * acc + DigitVal[Head(s)])

\* int(text): surrounding blanks are dropped, one optional sign, then at
\* least one decimal digit and nothing else; anything else is a ValueError
ParseText(s) ==
    LET t == RStrip(LStrip(s))
        signed == t # <<>> /\ Head(t) \in {"-", "+"}
        d == IF signed THEN Tail(t) ELSE t
        wellFormed == d # <<>> /\ \A i \in 1..Len(d) : d[i] \in DigitChars
    IN  IF ~wellFormed THEN [ok |-> FALSE, val |-> 0]
        ELSE [ok |-> TRUE,
              val |-> IF signed /\ Head(t) = "-" THEN 0 - DigitsValue(d, 0)
                      ELSE DigitsValue(d, 0)]

\* int(v) for the values a request parameter lookup can yield
PyInt(v) ==
    CASE v.kind = "int" -> [ok |-> TRUE, val |-> v.int]
      [] v.kind = "str" -> ParseText(v.str)
      [] v.kind = "none" -> [ok |-> FALSE, val |-> 0]

RECURSIVE NatText(_)
NatText(n) ==
    IF n < 10 THEN <<DigitChar[n + 1]>>
    ELSE NatText(n \div 10) \o <<DigitChar[(n % 10) + 1]>>

\* the decimal text of an integer, as simplejson.dumps writes it
IntText(n) == IF n < 0 THEN <<"-">> \o NatText(0 - n) ELSE NatText(n)

\* ------------------------------------------------------ request arguments
\* req.args: every parameter name maps to the list of values submitted for
\* it; the empty list stands for a parameter that was not submitted.
ParamNames ==
    {"q", "per_page", "page", "author", "source_filters", "date_start",
     "date_end", "wiki", "ticket"} \cup {FORMAT_STRING(p) : p \in ProviderNames}

\* req.args.getfirst(name, default)
getfirst(args, name, default) ==
    IF args[name] = <<>> THEN default ELSE StrVal(args[name][1])

\* req.args.get(name)
get(args, name) == getfirst(args, name, NoneVal)

\* req.args.getlist(name)
getlist(args, name) == args[name]

\* ------------------------------------------------------------ StartPoints
\* StartPoints.parse_args
parse_args(args, provider_list) ==
    [p \in {provider_list[i] : i \in 1..Len(provider_list)} |->
        getfirst(args, FORMAT_STRING(p), IntVal(0))]

\* mutant of prev_start: the count starts from 0, the previous offset is lost
prev_start_zero(prev_start_points, backend_name) == 0

\* int(prev_start_points.get(backend_name, 0)) under the bare except
prev_start(prev_start_points, backend_name) ==
    LET v == IF backend_name \in DOMAIN prev_start_points
             THEN prev_start_points[backend_name] ELSE IntVal(0)
        n == PyInt(v)
    IN  IF n.ok THEN n.val ELSE 0

\* the loop of StartPoints.format over the page, start_points being the dict
\* built so far
RECURSIVE format_loop(_, _, _)
format_loop(results, prev_start_points, start_points) ==
    IF results = <<>> THEN start_points
    ELSE LET backend_name == Head(results).backend_name
             seeded == IF backend_name \in DOMAIN start_points
                       THEN start_points
                       ELSE (backend_name :> prev_start(prev_start_points, backend_name))
                            @@ start_points
             counted == [seeded EXCEPT ![backend_name] = @ + 1]
         IN  format_loop(Tail(results), prev_start_points, counted)

\* StartPoints.format: the {name, value} pairs that simplejson.dumps writes
\* (the order of the pairs is the dict's and carries no meaning)
format(results, prev_start_points) ==
    LET start_points == format_loop(results, prev_start_points, <<>>)
    IN  {[name |-> FORMAT_STRING(n), value |-> start_points[n]] :
            n \in DOMAIN start_points}

\* ------------------------------------------------------------------ merge
Reverse(l) == [i \in 1..Len(l) |-> l[Len(l) + 1 - i]]

\* stable ascending sort by key score: insertion behind all equal keys
RECURSIVE InsertAsc(_, _)
InsertAsc(x, s) ==
    IF s = <<>> THEN <<x>>
    ELSE IF x.score < Head(s).score THEN <<x>> \o s
    ELSE <<Head(s)>> \o InsertAsc(x, Tail(s))

RECURSIVE StableSortAsc(_, _)
StableSortAsc(l, acc) ==
    IF l = <<>> THEN acc ELSE StableSortAsc(Tail(l), InsertAsc(Head(l), acc))

\* mutant of sort_reverse: an ascending stable sort, reversed afterwards
sort_then_reverse(l) == Reverse(StableSortAsc(l, <<>>))

\* list.sort(key=itemgetter('score'), reverse=True): the list is reversed,
\* sorted stably in ascending order and reversed again
sort_reverse(l) == Reverse(StableSortAsc(Reverse(l), <<>>))

\* l[:n]
slice_to(l, n) ==
    IF n >= 0 THEN SubSeq(l, 1, IF n < Len(l) THEN n ELSE Len(l))
    ELSE SubSeq(l, 1, IF Len(l) + n > 0 THEN Len(l) + n ELSE 0)

\* result_dict['backend_name'] = backend_name
tag(result_dict, backend_name) ==
    [k \in DOMAIN result_dict \cup {"backend_name"} |->
        IF k = "backend_name" THEN backend_name ELSE result_dict[k]]

\* the first loop of _merge_results; items is the order in which
\* result_map.iteritems() yields the providers
RECURSIVE extend_all(_, _)
extend_all(result_map, items) ==
    IF items = <<>> THEN <<>>
    ELSE LET results == result_map[Head(items)]
         IN  [i \in 1..Len(results) |-> tag(results[i], Head(items))]
             \o extend_all(result_map, Tail(items))

\* _merge_results: all is the sorted list, page the slice it returns
merge_results(result_map, per_page_, items) ==
    LET all == sort_reverse(extend_all(result_map, items))
    IN  [all |-> all, page |-> slice_to(all, per_page_)]

\* self.env.href.wiki(title)
href_wiki(title) == <<"wiki", title>>

\* mutant of add_href: the href is added whatever the source
add_href_any(result) ==
    [k \in DOMAIN result \cup {"href"} |->
        IF k = "href" THEN href_wiki(result.title) ELSE result[k]]

\* the body of the loop of _add_href_to_results
add_href(result) ==
    IF result.source = "wiki"
    THEN [k \in DOMAIN result \cup {"href"} |->
            IF k = "href" THEN href_wiki(result.title) ELSE result[k]]
    ELSE result

\* _add_href_to_results
add_href_to_results(results) == [i \in 1..Len(results) |-> add_href(results[i])]

\* _get_filter_dicts
get_filter_dicts(filter_list, req_args) ==
    [i \in 1..Len(filter_list) |->
        [name |-> filter_list[i], active |-> get(req_args, filter_list[i])]]

\* trac.util.presentation.Paginator as process_request builds it
Paginator(items, page_, max_per_page, num_items) ==
    [items |-> items, page |-> page_, max_per_page |-> max_per_page,
     num_items |-> num_items,
     num_pages |-> IF max_per_page > 0
                   THEN (num_items + max_per_page - 1) \div max_per_page
                   ELSE 1]
has_next_page(p) == p.page + 1 < p.num_pages
has_previous_page(p) == p.page > 0

\* ----------------------------------------------------------------- inputs
NoArgs == [n \in ParamNames |-> <<>>]

\* the filter fields of the search form: two authors, the first one an empty
\* text, the wiki source ticked, a start date and no end date
FilterArgs ==
    [NoArgs EXCEPT !["author"] = << <<>>, <<"j", "o", "e">> >>,
                   !["source_filters"] = << <<"w", "i", "k", "i">> >>,
                   !["date_start"] = << <<"2", "0", "1", "1">> >>,
                   !["wiki"] = << <<"o", "n">> >>]

QArgs == {<<>>, << <<>> >>, << <<"t", "r", "a", "c">> >>}
PerPageArgs ==
    {<<>>, << <<"2">> >>, << <<"0">> >>, << <<"-", "1">> >>, << <<"x">> >>}
PageArgs == {<<>>, << <<" ", "2">> >>, << <<"2", "x">> >>}
StartPointArgs == {<<>>, << <<"1">> >>, << <<"x">> >>}

with_start_points(args, sp) ==
    [n \in ParamNames |->
        IF \E p \in ProviderNames : n = FORMAT_STRING(p)
        THEN sp[CHOOSE p \in ProviderNames : n = FORMAT_STRING(p)]
        ELSE args[n]]

FormArgs ==
    {with_start_points(
        [FilterArgs EXCEPT !["q"] = q, !["per_page"] = pp, !["page"] = pg], sp) :
        q \in QArgs, pp \in PerPageArgs, pg \in PageArgs,
        sp \in [ProviderNames -> StartPointArgs]}

\* what a provider may return: records with the keys the interface names
Scores == {1, 2}
Records ==
    {[title |-> IF src = "wiki" THEN "WikiStart" ELSE "Ticket1", score |-> sc,
      source |-> src, summary |-> "s", date |-> "d", author |-> "joe"] :
        sc \in Scores, src \in {"wiki", "ticket"}}
ResultLists == UNION {[1..n -> Records] : n \in 0..MaxResults}

\* ------------------------------------------------------------------ state
VARIABLES
    pc,            \* where process_request stands
    nreq,          \* requests received so far
    req,           \* the request: its permissions and arguments
    query, per_page, page,      \* locals of process_request
    data,          \* the criteria record, later the template data
    next_provider, \* position of the loop over self.providers
    calls,         \* the query_backend calls made for this request
    result_map, total_count,
    all_results,   \* the list _merge_results sorts
    results,       \* the page
    links,         \* links added to the request's chrome
    response       \* what process_request returned or raised

vars == <<pc, nreq, req, query, per_page, page, data, next_provider, calls,
          result_map, total_count, all_results, results, links, response>>

NoData == <<>>
NoResponse == [kind |-> "none", template |-> "", data |-> NoData, warnings |-> {}]

Init ==
    /\ pc = "idle"
    /\ nreq = 0
    /\ req = [perm |-> FALSE, via |-> "none", args |-> NoArgs]
    /\ query = NoneVal
    /\ per_page = DEFAULT_PER_PAGE
    /\ page = DEFAULT_PAGE
    /\ data = NoData
    /\ next_provider = 1
    /\ calls = <<>>
    /\ result_map = <<>>
    /\ total_count = 0
    /\ all_results = <<>>
    /\ results = <<>>
    /\ links = {}
    /\ response = NoResponse

\* a fresh invocation of process_request for request r
Receive(r) ==
    /\ req' = r
    /\ nreq' = nreq + 1
    /\ pc' = "perm"
    /\ query' = NoneVal
    /\ per_page' = DEFAULT_PER_PAGE
    /\ page' = DEFAULT_PAGE
    /\ data' = NoData
    /\ next_provider' = 1
    /\ calls' = <<>>
    /\ result_map' = <<>>
    /\ total_count' = 0
    /\ all_results' = <<>>
    /\ results' = <<>>
    /\ links' = {}
    /\ response' = NoResponse

\* the search form is submitted
Submit ==
    /\ pc = "idle"
    /\ nreq < MaxRequests
    /\ \E perm \in BOOLEAN, args \in FormArgs :
          Receive([perm |-> perm, via |-> "form", args |-> args])

\* mutant of AssertPermission: the result of the check is ignored
AssertPermission_ignored ==
    /\ pc = "perm"
    /\ pc' = "parse"
    /\ UNCHANGED <<nreq, req, query, per_page, page, data, next_provider, calls,
                   result_map, total_count, all_results, results, links, response>>

\* req.perm.assert_permission('SEARCH_VIEW')
AssertPermission ==
    /\ pc = "perm"
    /\ IF req.perm
       THEN /\ pc' = "parse"
            /\ response' = response
       ELSE /\ pc' = "done"
            /\ response' = [NoResponse EXCEPT !.kind = "PermissionError"]
    /\ UNCHANGED <<nreq, req, query, per_page, page, data, next_provider, calls,
                   result_map, total_count, all_results, results, links>>

\* mutant of int_or_default: a malformed value falls back to 0
int_or_zero(args, name, default) ==
    LET n == PyInt(getfirst(args, name, IntVal(default)))
    IN  IF n.ok THEN n.val ELSE 0

\* int(req.args.getfirst(name, default)) except ValueError: default
int_or_default(args, name, default) ==
    LET n == PyInt(getfirst(args, name, IntVal(default)))
    IN  IF n.ok THEN n.val ELSE default

\* mutant of criteria: the empty author texts are kept
criteria_all_authors(args, query_) ==
    [source |-> getlist(args, "source_filters"),
     author |-> getlist(args, "author"),
     date_start |-> getfirst(args, "date_start", NoneVal),
     date_end |-> getfirst(args, "date_end", NoneVal),
     q |-> query_,
     start_points |-> parse_args(args, providers)]

\* the dict process_request builds in `data = {...}`
criteria(args, query_) ==
    [source |-> getlist(args, "source_filters"),
     author |-> SelectSeq(getlist(args, "author"), LAMBDA auth : auth # <<>>),
     date_start |-> getfirst(args, "date_start", NoneVal),
     date_end |-> getfirst(args, "date_end", NoneVal),
     q |-> query_,
     start_points |-> parse_args(args, providers)]

\* query, per_page, page and data are set up; `if not query` branches
ParseRequest ==
    /\ pc = "parse"
    /\ query' = get(req.args, "q")
    /\ per_page' = int_or_default(req.args, "per_page", DEFAULT_PER_PAGE)
    /\ page' = int_or_default(req.args, "page", DEFAULT_PAGE)
    /\ data' = criteria(req.args, query')
    /\ pc' = IF Truthy(query') THEN "query" ELSE "send"
    /\ UNCHANGED <<nreq, req, next_provider, calls, result_map, total_count,
                   all_results, results, links, response>>

RECURSIVE Returned(_)
Returned(result_map_) ==
    IF DOMAIN result_map_ = {} THEN 0
    ELSE LET p == CHOOSE p \in DOMAIN result_map_ : TRUE
         IN  Len(result_map_[p])
             + Returned([k \in DOMAIN result_map_ \ {p} |-> result_map_[k]])

\* one round of `for provider in self.providers`; the provider reports as
\* result_count the number of records it returns
QueryBackend ==
    /\ pc = "query"
    /\ next_provider <= Len(providers)
    /\ \E result_list \in ResultLists :
          /\ Returned(result_map) + Len(result_list) <= MaxResults
          /\ calls' = Append(calls, [provider |-> providers[next_provider],
                                     criteria |-> data])
          /\ total_count' = total_count + Len(result_list)
          /\ result_map' = (providers[next_provider] :> result_list) @@ result_map
    /\ next_provider' = next_provider + 1
    /\ pc' = IF next_provider = Len(providers) THEN "merge" ELSE "query"
    /\ UNCHANGED <<nreq, req, query, per_page, page, data, all_results, results,
                   links, response>>

\* the orders in which a dict with these keys can be iterated
Orders(keys) ==
    {o \in [1..Cardinality(keys) -> keys] :
        \A i, j \in 1..Cardinality(keys) : i # j => o[i] # o[j]}

\* data['source_filters'], data['per_page'], data['page'], _merge_results
MergeResults ==
    /\ pc = "merge"
    /\ data' = [k \in DOMAIN data \cup {"source_filters", "per_page", "page"} |->
                  CASE k = "source_filters" -> get_filter_dicts(SOURCE_FILTERS, req.args)
                    [] k = "per_page" -> per_page
                    [] k = "page" -> page
                    [] OTHER -> data[k]]
    /\ \E items \in Orders(DOMAIN result_map) :
          LET m == merge_results(result_map, per_page, items)
          IN  /\ all_results' = m.all
              /\ results' = m.page
    /\ pc' = "href"
    /\ UNCHANGED <<nreq, req, query, per_page, page, next_provider, calls,
                   result_map, total_count, links, response>>

\* _add_href_to_results(results) and data['results'] = Paginator(...); the
\* page shares its records with the sorted list
AddHref ==
    /\ pc = "href"
    /\ results' = add_href_to_results(results)
    /\ all_results' = results' \o SubSeq(all_results, Len(results) + 1, Len(all_results))
    /\ data' = [k \in DOMAIN data \cup {"results"} |->
                  IF k = "results"
                  THEN Paginator(results', page - 1, per_page, total_count)
                  ELSE data[k]]
    /\ pc' = "links"
    /\ UNCHANGED <<nreq, req, query, per_page, page, next_provider, calls,
                   result_map, total_count, links, response>>

\* the warnings _send_response adds; a Paginator is false when it is empty
warnings(data_) ==
    (IF Len(providers) = 0 THEN {"No advanced search providers found."} ELSE {})
    \cup
    (IF /\ "results" \in DOMAIN data_
        /\ Len(data_.results.items) # 0
        /\ Len(data_.results.items) = 0
     THEN {"No results."} ELSE {})

\* _send_response
send_response(data_) ==
    [kind |-> "response", template |-> "advsearch.html", data |-> data_,
     warnings |-> warnings(data_)]

\* `if not query: return self._send_response(req, data)`
SendEmpty ==
    /\ pc = "send"
    /\ response' = send_response(data)
    /\ pc' = "done"
    /\ UNCHANGED <<nreq, req, query, per_page, page, data, next_provider, calls,
                   result_map, total_count, all_results, results, links>>

\* the pagination links, then _send_response
SendResults ==
    /\ pc = "links"
    /\ links' =
          (IF has_next_page(data.results)
           THEN {[rel |-> "next", start_points |-> format(results, data.start_points)]}
           ELSE {})
          \cup
          (IF has_previous_page(data.results)
           THEN {[rel |-> "prev", start_points |-> {}]}
           ELSE {})
    /\ response' = send_response(data)
    /\ pc' = "done"
    /\ UNCHANGED <<nreq, req, query, per_page, page, data, next_provider, calls,
                   result_map, total_count, all_results, results>>

\* the browser follows the next link: the form is submitted again with
\* exactly the start point pairs of the link, each value as its decimal text
next_args(args, start_points) ==
    with_start_points(args,
        [p \in ProviderNames |->
            IF \E e \in start_points : e.name = FORMAT_STRING(p)
            THEN << IntText((CHOOSE e \in start_points : e.name = FORMAT_STRING(p)).value) >>
            ELSE <<>>])

FollowNext ==
    /\ pc = "done"
    /\ nreq < MaxRequests
    /\ \E l \in links :
          /\ l.rel = "next"
          /\ Receive([perm |-> req.perm, via |-> "next",
                      args |-> next_args(req.args, l.start_points)])

Next ==
    \/ Submit
    \/ AssertPermission
    \/ ParseRequest
    \/ QueryBackend
    \/ MergeResults
    \/ AddHref
    \/ SendEmpty
    \/ SendResults
    \/ FollowNext

Spec == Init /\ [][Next]_vars

\* ================================================================= claims
\* helpers of the claims below, written from the request alone

\* the text submitted for a parameter, <<>> when none was
Submitted(name) == req.args[name]

\* the integer a parameter stands for, dflt when it is absent or no integer
IntegerOr(name, dflt) ==
    IF Submitted(name) = <<>> THEN dflt
    ELSE IF ParseText(Submitted(name)[1]).ok THEN ParseText(Submitted(name)[1]).val
    ELSE dflt

\* the offset a request carries for provider p
OffsetOf(args, p) ==
    IF args[FORMAT_STRING(p)] = <<>> THEN 0
    ELSE IF ParseText(args[FORMAT_STRING(p)][1]).ok
         THEN ParseText(args[FORMAT_STRING(p)][1]).val
    ELSE 0

\* how many records of the page come from provider p
OnPage(p) == Cardinality({i \in DOMAIN results : results[i].backend_name = p})

QuerySet == Submitted("q") # <<>> /\ Submitted("q")[1] # <<>>

IsPrefix(a, b) == Len(a) <= Len(b) /\ a = SubSeq(b, 1, Len(a))

NonIncreasing(l) == \A i \in 1..(Len(l) - 1) : l[i].score >= l[i + 1].score

WithScore(l, v) == SelectSeq(l, LAMBDA r : r.score = v)

\* C1: right after _merge_results, the sorted list and the page it returns
\* are in non-increasing order of score, and for some iteration order of the
\* result map the records of each score stand in the order they have in the
\* concatenation of the providers' lists (all of them in the sorted list,
\* the first of them on the page).
C1_SortedStable ==
    pc = "href" =>
        /\ NonIncreasing(all_results)
        /\ NonIncreasing(results)
        /\ \E items \in Orders(DOMAIN result_map) :
              \A v \in Scores :
                 /\ WithScore(all_results, v)
                       = WithScore(extend_all(result_map, items), v)
                 /\ IsPrefix(WithScore(results, v),
                             WithScore(extend_all(result_map, items), v))

\* C1 witness: one provider returned two different records of equal score
\* and a record of another score, and they have been merged
C1_Witness ==
    /\ pc = "href"
    /\ \E i, j \in DOMAIN all_results :
          /\ i < j
          /\ all_results[i].score = all_results[j].score
          /\ all_results[i].backend_name = all_results[j].backend_name
          /\ all_results[i].source # all_results[j].source
    /\ \E i, j \in DOMAIN all_results : all_results[i].score # all_results[j].score

\* C2: the page is exactly the first per_page records of the sorted list
\* (none when per_page is below 1): it holds min(per_page, n) records and
\* never more than per_page.
C2_FirstPerPage ==
    pc = "href" =>
        LET n == Len(all_results)
            k == IF per_page < 0 THEN 0 ELSE per_page
        IN  /\ Len(results) = (IF k < n THEN k ELSE n)
            /\ results = SubSeq(all_results, 1, IF k < n THEN k ELSE n)

\* C3: in the next link, every provider with a record on the page has exactly
\* one pair, and its value is the offset the request carried for it (0 when
\* absent or no integer) plus the number of its records on the page.
C3_OffsetAdvance ==
    \A l \in links :
        l.rel = "next" =>
            \A p \in ProviderNames :
                OnPage(p) > 0 =>
                    /\ \E e \in l.start_points :
                          /\ e.name = FORMAT_STRING(p)
                          /\ e.value = OffsetOf(req.args, p) + OnPage(p)
                    /\ Cardinality({e \in l.start_points : e.name = FORMAT_STRING(p)}) = 1

\* C3 witness: a next link was emitted for a page on which one provider,
\* which came with the offset 1, has two records and leaves with 3, while
\* the other provider came with a malformed offset and has none
C3_Witness ==
    /\ pc = "done"
    /\ \E l \in links, p, o \in ProviderNames :
          /\ l.rel = "next"
          /\ OnPage(p) = 2
          /\ Submitted(FORMAT_STRING(p)) = << <<"1">> >>
          /\ [name |-> FORMAT_STRING(p), value |-> 3] \in l.start_points
          /\ OnPage(o) = 0
          /\ Submitted(FORMAT_STRING(o)) = << <<"x">> >>

\* C4: when the next link is followed, a provider without a record on the
\* current page has on the following request the offset it had on the
\* current one.
C4_AbsentKeepsOffset ==
    [][(pc = "done" /\ pc' = "perm") =>
          \A p \in ProviderNames :
              OnPage(p) = 0 => OffsetOf(req'.args, p) = OffsetOf(req.args, p)]_vars

\* C5: the start point placed in the criteria record for a provider is the
\* integer the parameter stands for when it is a well-formed integer, and the
\* integer 0 when it is absent or malformed.
C5_StartPointsParsed ==
    "start_points" \in DOMAIN data =>
        \A p \in ProviderNames :
            LET v == data.start_points[p]
                sub == Submitted(FORMAT_STRING(p))
            IN  IF sub # <<>> /\ ParseText(sub[1]).ok
                THEN PyInt(v).ok /\ PyInt(v).val = ParseText(sub[1]).val
                ELSE v = IntVal(0)

\* whether a parameter is missing or no integer
Defaulted(name) ==
    Submitted(name) = <<>> \/ ~ParseText(Submitted(name)[1]).ok

\* C6: once the request is parsed, page and per_page are the integers their
\* parameters stand for, 1 and 10 when the parameter is missing or no
\* integer, each whatever the other is; a request holding SEARCH_VIEW with
\* such a parameter gets no error, and a response when it is done.
C6_PageDefaults ==
    /\ pc \notin {"idle", "perm", "parse"} /\ req.perm =>
          /\ page = (IF Defaulted("page") THEN 1 ELSE ParseText(Submitted("page")[1]).val)
          /\ per_page = (IF Defaulted("per_page") THEN 10
                         ELSE ParseText(Submitted("per_page")[1]).val)
    /\ req.perm /\ (Defaulted("page") \/ Defaulted("per_page")) =>
          /\ response.kind \in {"none", "response"}
          /\ pc = "done" => response.kind = "response"

\* C6 witness: a request with a malformed per_page and a well-formed page
\* was answered
C6_Witness ==
    /\ pc = "done"
    /\ Submitted("per_page") = << <<"x">> >>
    /\ Submitted("page") = << <<" ", "2">> >>
    /\ per_page = 10
    /\ page = 2
    /\ response.kind = "response"

\* C7 (as claimed): every provider is queried exactly once, in turn, all
\* with the same criteria record, and at each call the record carries the
\* values of q, author, source_filters, date_start, date_end, page and
\* per_page.
C7_CriteriaCarryAll ==
    /\ Len(calls) <= Len(providers)
    /\ \A i \in DOMAIN calls :
          /\ calls[i].provider = providers[i]
          /\ calls[i].criteria = calls[1].criteria
          /\ {"q", "author", "source", "date_start", "date_end", "page", "per_page"}
                \subseteq DOMAIN calls[i].criteria
          /\ calls[i].criteria["page"] = IntegerOr("page", 1)
          /\ calls[i].criteria["per_page"] = IntegerOr("per_page", 10)
    /\ pc \in {"merge", "href", "links"} => Len(calls) = Len(providers)

\* C7 (amended): every provider is queried exactly once, in turn, all with
\* the same criteria record; at each call the record carries the values of
\* q, author (empty texts dropped), source_filters (under source),
\* date_start and date_end and the start points, and neither page nor
\* per_page, which are added once the last provider has been called.
C7_CriteriaWithoutPaging ==
    /\ Len(calls) <= Len(providers)
    /\ \A i \in DOMAIN calls :
          /\ calls[i].provider = providers[i]
          /\ calls[i].criteria = calls[1].criteria
          /\ DOMAIN calls[i].criteria
                = {"q", "author", "source", "date_start", "date_end", "start_points"}
          /\ calls[i].criteria.q = StrVal(Submitted("q")[1])
          /\ calls[i].criteria.author
                = SelectSeq(Submitted("author"), LAMBDA a : a # <<>>)
          /\ calls[i].criteria.source = Submitted("source_filters")
          /\ calls[i].criteria.date_start
                = (IF Submitted("date_start") = <<>> THEN NoneVal
                   ELSE StrVal(Submitted("date_start")[1]))
          /\ calls[i].criteria.date_end
                = (IF Submitted("date_end") = <<>> THEN NoneVal
                   ELSE StrVal(Submitted("date_end")[1]))
    /\ pc \in {"query", "merge"} => data = criteria(req.args, query)
    /\ pc \in {"merge", "href", "links"} => Len(calls) = Len(providers)
    /\ pc \in {"href", "links"} =>
          /\ data["page"] = IntegerOr("page", 1)
          /\ data["per_page"] = IntegerOr("per_page", 10)

\* C7 witness: the last provider has been called
C7_Witness ==
    /\ pc = "merge"
    /\ Len(calls) = Len(providers)
    /\ Len(providers) > 1
    /\ calls[Len(calls)].criteria.author = << <<"j", "o", "e">> >>

C9_NoQueryNoBackend ==
    /\ calls # <<>> => QuerySet
    /\ ~QuerySet =>
          /\ calls = <<>>
          /\ links = {}
          /\ DOMAIN data \cap {"results", "page", "per_page"} = {}
          /\ DOMAIN response.data \cap {"results", "page", "per_page"} = {}
          /\ pc = "done" /\ req.perm => response.kind = "response"

\* C9 witness: a request with an empty q was answered
C9_Witness ==
    /\ pc = "done"
    /\ req.perm
    /\ Submitted("q") = << <<>> >>
    /\ response.kind = "response"
    /\ "q" \in DOMAIN response.data

\* C10: nothing is done before the permission check; a request without
\* SEARCH_VIEW ends with the check failing, no provider queried, no start
\* points parsed or emitted and no response data; every query_backend call
\* is made for a request that passed the check.
C10_PermissionFirst ==
    /\ pc = "perm" => data = NoData /\ calls = <<>> /\ links = {}
    /\ pc \in {"parse", "query", "merge", "href", "links", "send"} => req.perm
    /\ calls # <<>> => req.perm
    /\ ~req.perm =>
          /\ calls = <<>>
          /\ data = NoData
          /\ links = {}
          /\ response.kind # "response"
          /\ response.data = NoData
          /\ pc \in {"idle", "perm", "done"}
          /\ pc = "done" => response.kind = "PermissionError"

\* C10 witness: a request without SEARCH_VIEW was refused
C10_Witness ==
    /\ pc = "done"
    /\ ~req.perm
    /\ QuerySet
    /\ response.kind = "PermissionError"

====
